---- MODULE Spec2Model ----
(***************************************************************************)
(* fastly-logging-creds: a CLI that clones the active version of a Fastly  *)
(* service, applies one change to the clone's S3 logging configuration     *)
(* and activates the clone (src/main.go, lines 80-331).                    *)
(*                                                                         *)
(* The model has two parts.  The program part is translated from the Go    *)
(* source: main, checkArgs, check, updateService, getActiveService,        *)
(* cloneService, the four closures, deleteLogConfiguration,                *)
(* activateService and fastlyHTTP.  The remote part is the Fastly service  *)
(* the requests are sent to: a list of versions, each with an active flag  *)
(* and a list of S3 logging endpoints.  The remote answers every request   *)
(* with a nondeterministic outcome (transport failure, unreadable body,    *)
(* any status, well-formed or malformed body) and changes its state only   *)
(* when it answers 200.                                                    *)
(***************************************************************************)
EXTENDS Integers, Sequences, FiniteSets, TLC

(***************************************************************************)
(* Bounds of the model.                                                    *)
(***************************************************************************)
\* longest version list the service starts with
MaxVersions == 2
\* the number of the first version the service lists
FirstNumber == 4
\* longest logging-endpoint list a version starts with
MaxEndpoints == 3

(***************************************************************************)
(* Values.                                                                 *)
(***************************************************************************)
Runs == {1, 2}

\* os.Args[1]; "bogus" stands for any other word
Commands == {"rotate-creds", "describe", "delete", "create"}
CommandWords == Commands \cup {"bogus"}

\* endpoint names; "s3-logs" is the -loggingName default and the name create uses
EndpointNames == <<"s3-logs", "extra", "third">>
Names == {EndpointNames[i] : i \in 1..(IF MaxEndpoints < 3 THEN MaxEndpoints ELSE 3)}

OldKey == "oldKey"
NewKey == "newKey"

\* Go's nil error
Nil == "nil"

\* http.StatusOK
StatusOK == 200
\* the statuses the remote answers with: 200, another 2xx, a 4xx, a 5xx
Statuses == {StatusOK, 201, 404, 500}

\* the version field of a request that names no version
NoVersion == -1

VARIABLES
    service,        \* remote: <<[number, active, logging]>>, the service's versions
    service0,       \* the service as it was when the run started
    pc,             \* pc[r]: where run r is
    args,           \* args[r]: os.Args[1], the flags and the environment of run r
    activeVersion,  \* updateService's activeVersion
    newVersion,     \* updateService's newVersion
    confs,          \* deleteLogConfiguration's confs (the names still to delete)
    mutation,       \* what fn returned to updateService, "pending" before it has
    err,            \* the error updateService returned, or the one main raised
    exitCode,       \* the process's exit status, -1 while it runs
    deleteIdx,      \* deleteLogConfiguration's position in confs
    stdout,         \* what describe printed: "" or "printed"
    reqs            \* reqs[r]: the HTTP requests run r issued, in order

vars == <<service, service0, pc, args, activeVersion, newVersion,
          confs, deleteIdx, mutation, err, exitCode, stdout, reqs>>

(***************************************************************************)
(* Sequence helpers.                                                       *)
(***************************************************************************)
\* the sequences over S without repetition, of length at most n
DistinctSeqs(S, n) ==
    UNION {{s \in [1..k -> S] : \A i, j \in 1..k : i # j => s[i] # s[j]} : k \in 0..n}

(***************************************************************************)
(* The remote: the Fastly service.                                         *)
(***************************************************************************)
\* a request: method, resource, the version in the URL, the endpoint name in it
Request(key, method, path, version, name) ==
    [key |-> key, method |-> method, path |-> path, version |-> version, name |-> name]

Numbers(svc) == {svc[i].number : i \in DOMAIN svc}

Exists(svc, v) == v \in Numbers(svc)

IndexOf(svc, v) == CHOOSE i \in DOMAIN svc : svc[i].number = v

LoggingOf(svc, v) == svc[IndexOf(svc, v)].logging

LoggingNames(svc, v) == {LoggingOf(svc, v)[i].name : i \in DOMAIN LoggingOf(svc, v)}

ActiveNumbers(svc) == {svc[i].number : i \in {j \in DOMAIN svc : svc[j].active}}

MaxNumber(svc) == CHOOSE n \in Numbers(svc) : \A m \in Numbers(svc) : m <= n

RECURSIVE Without(_, _)
Without(logging, name) ==
    IF logging = <<>> THEN <<>>
    ELSE IF Head(logging).name = name THEN Without(Tail(logging), name)
    ELSE <<Head(logging)>> \o Without(Tail(logging), name)

\* whether the remote can answer q with 200
Accepts(svc, q) ==
    CASE q.key = "" -> FALSE
      [] q.path = "version" -> TRUE
      [] q.path = "clone" -> Exists(svc, q.version)
      [] q.path = "activate" -> Exists(svc, q.version)
      [] q.path = "logging" ->
            /\ Exists(svc, q.version)
            /\ CASE q.method = "GET" -> TRUE
                 [] q.method = "POST" -> q.name \notin LoggingNames(svc, q.version)
                 [] OTHER -> q.name \in LoggingNames(svc, q.version)

\* the service after the remote has answered q with 200
Apply(svc, q) ==
    CASE q.path = "version" -> svc
      [] q.path = "clone" ->
            Append(svc, [number |-> MaxNumber(svc) + 1, active |-> FALSE,
                         logging |-> LoggingOf(svc, q.version)])
      [] q.path = "activate" ->
            [i \in DOMAIN svc |-> [svc[i] EXCEPT !.active = (svc[i].number = q.version)]]
      [] q.path = "logging" ->
            LET i == IndexOf(svc, q.version)
                old == svc[i].logging
                new == CASE q.method = "GET" -> old
                         [] q.method = "POST" ->
                               Append(old, [name |-> q.name, access_key |-> NewKey])
                         [] q.method = "PUT" ->
                               [k \in DOMAIN old |->
                                   IF old[k].name = q.name
                                   THEN [old[k] EXCEPT !.access_key = NewKey]
                                   ELSE old[k]]
                         [] q.method = "DELETE" -> Without(old, q.name)
            IN [svc EXCEPT ![i].logging = new]

\* the value of the 200 response's body, read off the service after the request
Reply(svc, q) ==
    CASE q.path = "version" ->
            [i \in DOMAIN svc |-> [active |-> svc[i].active, number |-> svc[i].number]]
      [] q.path = "clone" -> [active |-> FALSE, number |-> svc[Len(svc)].number]
      [] q.path = "logging" /\ q.method = "GET" ->
            [i \in DOMAIN LoggingOf(svc, q.version) |->
                LoggingOf(svc, q.version)[i].name]
      [] OTHER -> <<>>

\* What can happen to one request: client.Do fails (do = FALSE: the request is not
\* served), or the remote answers with a status; then reading the body fails
\* (read = FALSE) or the body arrives, well-formed JSON or not, and, when
\* well-formed, with or without its fields (complete).
Outcomes ==
    {[do |-> FALSE, status |-> 0, read |-> FALSE, wellFormed |-> FALSE, complete |-> FALSE]}
    \cup {[do |-> TRUE, status |-> s, read |-> FALSE, wellFormed |-> FALSE,
           complete |-> FALSE] : s \in Statuses}
    \cup {[do |-> TRUE, status |-> s, read |-> TRUE, wellFormed |-> TRUE,
           complete |-> TRUE] : s \in Statuses}
    \cup {[do |-> TRUE, status |-> StatusOK, read |-> TRUE, wellFormed |-> w,
           complete |-> FALSE] : w \in BOOLEAN}

\* the outcomes the remote can produce for q
Possible(svc, q) == {o \in Outcomes : o.status = StatusOK => Accepts(svc, q)}

Served(o) == o.do /\ o.status = StatusOK

\* the service after the exchange
After(svc, q, o) == IF Served(o) THEN Apply(svc, q) ELSE svc

(***************************************************************************)
(* The program: pure parts.                                                *)
(***************************************************************************)
ErrTransport == "client.Do failed"
ErrRead == "ioutil.ReadAll failed"
ErrAPI == "Fastly API request failed"
ErrDecode == "json.Unmarshal failed"
ErrNoActive == "No active version found."
ErrCommand == "Must provide valid command. See -h for more info."
ErrMissing == "Missing required arg"
ErrDelete(name) == "Unable to delete logging service " \o name

NoBody == [wellFormed |-> FALSE, complete |-> FALSE, value |-> <<>>]

\* fastlyHTTP accepting every 2xx status
fastlyHTTP_Any2xx(o, value) ==
    IF ~o.do THEN [body |-> NoBody, err |-> ErrTransport]
    ELSE IF ~o.read THEN [body |-> NoBody, err |-> ErrRead]
    ELSE IF o.status < 200 \/ o.status >= 300 THEN [body |-> NoBody, err |-> ErrAPI]
    ELSE [body |-> [wellFormed |-> o.wellFormed, complete |-> o.complete,
                    value |-> value],
          err |-> Nil]

\* fastlyHTTP: the body and the error it returns for outcome o of the request,
\* value being what a 200 response carries
fastlyHTTP(o, value) ==
    IF ~o.do THEN [body |-> NoBody, err |-> ErrTransport]
    ELSE IF ~o.read THEN [body |-> NoBody, err |-> ErrRead]
    ELSE IF o.status # StatusOK THEN [body |-> NoBody, err |-> ErrAPI]
    ELSE [body |-> [wellFormed |-> o.wellFormed, complete |-> o.complete,
                    value |-> value],
          err |-> Nil]

\* the loop looking at the first entry only
rangeVersions_FirstOnly(data, i) ==
    IF Len(data) >= 1 /\ data[1].active THEN [number |-> data[1].number, err |-> Nil]
    ELSE [number |-> 0, err |-> ErrNoActive]

\* the loop keeping the last active entry instead of returning at the first
RECURSIVE rangeVersions_Last(_, _)
rangeVersions_Last(data, i) ==
    IF i > Len(data) THEN [number |-> 0, err |-> ErrNoActive]
    ELSE LET rest == rangeVersions_Last(data, i + 1)
         IN IF rest.err = Nil THEN rest
            ELSE IF data[i].active THEN [number |-> data[i].number, err |-> Nil]
            ELSE rest

\* getActiveService's loop over the decoded list, from index i on
RECURSIVE rangeVersions(_, _)
rangeVersions(data, i) ==
    IF i > Len(data) THEN [number |-> 0, err |-> ErrNoActive]
    ELSE IF data[i].active THEN [number |-> data[i].number, err |-> Nil]
    ELSE rangeVersions(data, i + 1)

\* json.Unmarshal into []Version: an entry without its fields decodes to Go's zero
\* values
decodeVersions(body) ==
    [i \in DOMAIN body.value |->
        IF body.complete THEN body.value[i] ELSE [active |-> FALSE, number |-> 0]]

\* getActiveService, given what fastlyHTTP returned
getActiveService(res) ==
    IF res.err # Nil THEN [number |-> 0, err |-> res.err]
    ELSE IF ~res.body.wellFormed THEN [number |-> 0, err |-> ErrDecode]
    ELSE rangeVersions(decodeVersions(res.body), 1)

\* cloneService, given what fastlyHTTP returned; a body without a number field
\* leaves data.Number at Go's zero value
cloneService(res) ==
    IF res.err # Nil THEN [number |-> 0, err |-> res.err]
    ELSE IF ~res.body.wellFormed THEN [number |-> 0, err |-> ErrDecode]
    ELSE [number |-> IF res.body.complete THEN res.body.value.number ELSE 0,
          err |-> Nil]

\* checkArgs: the first flag, in flag.VisitAll's lexical order, whose value is
\* empty, or "" when none is
checkArgs(a) ==
    IF a.awsAccessKey = "" THEN "awsAccessKey"
    ELSE IF a.loggingName = "" THEN "loggingName"
    ELSE IF a.serviceID = "" THEN "serviceID"
    ELSE ""

\* check: the exit status it ends the process with, 0 when it returns and main ends
check(e) == IF e # Nil THEN 1 ELSE 0

\* updateService with the check of fn's error left out: it activates whatever fn
\* returned
updateServiceNext_NoMutationCheck(step, e) ==
    CASE step = "getActive" -> IF e # Nil THEN "returned" ELSE "clone"
      [] step = "clone" -> IF e # Nil THEN "returned" ELSE "mutate"
      [] step = "mutate" -> "activate"
      [] step = "activate" -> "returned"

\* updateService with the check of cloneService's error left out
updateServiceNext_NoCloneCheck(step, e) ==
    CASE step = "getActive" -> IF e # Nil THEN "returned" ELSE "clone"
      [] step = "clone" -> "mutate"
      [] step = "mutate" -> IF e # Nil THEN "returned" ELSE "activate"
      [] step = "activate" -> "returned"

\* updateService with the check of getActiveService's error left out
updateServiceNext_NoActiveCheck(step, e) ==
    CASE step = "getActive" -> "clone"
      [] step = "clone" -> IF e # Nil THEN "returned" ELSE "mutate"
      [] step = "mutate" -> IF e # Nil THEN "returned" ELSE "activate"
      [] step = "activate" -> "returned"

\* updateService trying the clone again when it failed
updateServiceNext_RetryClone(step, e) ==
    CASE step = "getActive" -> IF e # Nil THEN "returned" ELSE "clone"
      [] step = "clone" -> IF e # Nil THEN "clone" ELSE "mutate"
      [] step = "mutate" -> IF e # Nil THEN "returned" ELSE "activate"
      [] step = "activate" -> "returned"

\* updateService: where it goes after a step returned e
updateServiceNext(step, e) ==
    CASE step = "getActive" -> IF e # Nil THEN "returned" ELSE "clone"
      [] step = "clone" -> IF e # Nil THEN "returned" ELSE "mutate"
      [] step = "mutate" -> IF e # Nil THEN "returned" ELSE "activate"
      [] step = "activate" -> "returned"

\* the clone of a fixed version 1, whatever the list read returned
cloneTarget_First(r) == 1

\* the version updateService clones
cloneTarget(r) == activeVersion[r]

\* fn handed the version that was read as active instead of the clone
mutationTarget_Active(r) == activeVersion[r]

\* the version updateService hands to fn
mutationTarget(r) == newVersion[r]

\* the version that was read as active activated again instead of the clone
activateTarget_Active(r) == activeVersion[r]

\* the version updateService activates
activateTarget(r) == newVersion[r]

\* the loop going on to the next entry whatever the delete returned
deleteLoop_Continue(cs, i, e) ==
    IF i + 1 > Len(cs) THEN [done |-> TRUE, err |-> Nil]
    ELSE [done |-> FALSE, err |-> Nil]

\* deleteLogConfiguration's loop after the delete of cs[i] returned e: whether
\* the function is done, and with which error
deleteLoop(cs, i, e) ==
    IF e # Nil THEN [done |-> TRUE, err |-> ErrDelete(cs[i])]
    ELSE IF i + 1 > Len(cs) THEN [done |-> TRUE, err |-> Nil]
    ELSE [done |-> FALSE, err |-> Nil]

\* the names deleteLogConfiguration reads from the decoded list: c["name"] is ""
\* for an entry without that key
confNames(body) ==
    [i \in DOMAIN body.value |-> IF body.complete THEN body.value[i] ELSE ""]

(***************************************************************************)
(* Initial states: a service with up to MaxVersions versions numbered from *)
(* FirstNumber in list order, any of them marked active, all with the same logging   *)
(* endpoints; no run has started.                                          *)
(***************************************************************************)
InitLoggings ==
    {[i \in DOMAIN s |-> [name |-> s[i], access_key |-> OldKey]] :
        s \in DistinctSeqs(Names, MaxEndpoints)}

InitServices ==
    UNION {{[i \in 1..n |-> [number |-> FirstNumber + i - 1, active |-> f[i],
                          logging |-> l]] :
                f \in [1..n -> BOOLEAN], l \in InitLoggings} : n \in 0..MaxVersions}

NoArgs == [command |-> "", serviceID |-> "", awsAccessKey |-> "", loggingName |-> "",
           AWS_SECRET_KEY |-> "", FASTLY_KEY |-> ""]

InitRun(started) ==
    /\ pc = [r \in Runs |-> IF r \in started THEN "main" ELSE "off"]
    /\ args = [r \in Runs |-> NoArgs]
    /\ activeVersion = [r \in Runs |-> 0]
    /\ newVersion = [r \in Runs |-> 0]
    /\ confs = [r \in Runs |-> <<>>]
    /\ deleteIdx = [r \in Runs |-> 0]
    /\ mutation = [r \in Runs |-> "pending"]
    /\ err = [r \in Runs |-> Nil]
    /\ exitCode = [r \in Runs |-> -1]
    /\ stdout = [r \in Runs |-> ""]
    /\ reqs = [r \in Runs |-> <<>>]

Init ==
    /\ service \in InitServices
    /\ service0 = service
    /\ InitRun({1})

(***************************************************************************)
(* The program: one action per step of a run.  Every HTTP round trip is    *)
(* one action: the request is logged, the remote answers and the function  *)
(* that issued it runs to its next request or to its return.               *)
(***************************************************************************)
\* what fastlyHTTP returns to the caller for q answered with o
Result(q, o) == fastlyHTTP(o, Reply(After(service, q, o), q))

\* what reqs records of request q that met outcome o: the request, the status
\* (0 when none arrived), the error fastlyHTTP returned, the shape of the body it
\* returned, for a clone the number field of that body (0 when it has none), and
\* the versions the service marks active at the moment the request is issued
Sent(q, o) ==
    LET res == Result(q, o)
    IN [method |-> q.method, path |-> q.path, version |-> q.version, name |-> q.name,
        status |-> o.status, err |-> res.err,
        wellFormed |-> res.body.wellFormed, complete |-> res.body.complete,
        number |-> IF q.path = "clone" /\ res.body.wellFormed /\ res.body.complete
                   THEN res.body.value.number ELSE 0,
        active |-> ActiveNumbers(service)]

\* run r issues q and the remote answers it with o
Send(r, q, o) ==
    /\ o \in Possible(service, q)
    /\ service' = After(service, q, o)
    /\ reqs' = [reqs EXCEPT ![r] = Append(@, Sent(q, o))]
    /\ UNCHANGED service0

\* main up to the switch: parse the flags, checkArgs, read the environment, dispatch
Main(r) ==
    /\ pc[r] = "main"
    /\ \E c \in CommandWords, id \in {"", "svc"}, ak \in {"", NewKey},
          ln \in Names \cup {""}, sk \in {"", "secret"}, fk \in {"", "key"} :
          LET a == [command |-> c, serviceID |-> id, awsAccessKey |-> ak,
                    loggingName |-> ln, AWS_SECRET_KEY |-> sk, FASTLY_KEY |-> fk]
          IN /\ args' = [args EXCEPT ![r] = a]
             /\ IF checkArgs(a) # ""
                THEN /\ err' = [err EXCEPT ![r] = ErrMissing]
                     /\ exitCode' = [exitCode EXCEPT ![r] = 1]
                     /\ pc' = [pc EXCEPT ![r] = "exited"]
                ELSE IF c \notin Commands
                THEN /\ err' = [err EXCEPT ![r] = ErrCommand]
                     /\ exitCode' = [exitCode EXCEPT ![r] = check(ErrCommand)]
                     /\ pc' = [pc EXCEPT ![r] = "exited"]
                ELSE /\ pc' = [pc EXCEPT ![r] = "getActive"]
                     /\ UNCHANGED <<err, exitCode>>
    /\ UNCHANGED <<service, service0, activeVersion, newVersion, confs, deleteIdx,
                   mutation, stdout, reqs>>

\* updateService, first step: getActiveService
GetActiveService(r) ==
    /\ pc[r] = "getActive"
    /\ \E o \in Outcomes :
          LET q == Request(args[r].FASTLY_KEY, "GET", "version", NoVersion, "")
              ret == getActiveService(Result(q, o))
          IN /\ Send(r, q, o)
             /\ activeVersion' = [activeVersion EXCEPT ![r] = ret.number]
             /\ err' = [err EXCEPT ![r] = ret.err]
             /\ pc' = [pc EXCEPT ![r] = updateServiceNext("getActive", ret.err)]
    /\ UNCHANGED <<args, newVersion, confs, deleteIdx, mutation, exitCode, stdout>>

\* updateService, second step: cloneService
CloneService(r) ==
    /\ pc[r] = "clone"
    /\ \E o \in Outcomes :
          LET q == Request(args[r].FASTLY_KEY, "PUT", "clone", cloneTarget(r), "")
              ret == cloneService(Result(q, o))
          IN /\ Send(r, q, o)
             /\ newVersion' = [newVersion EXCEPT ![r] = ret.number]
             /\ err' = [err EXCEPT ![r] = ret.err]
             /\ pc' = [pc EXCEPT ![r] = updateServiceNext("clone", ret.err)]
    /\ UNCHANGED <<args, activeVersion, confs, deleteIdx, mutation, exitCode, stdout>>

\* rotateCreds' closure: updateLoggingCreds
UpdateLoggingCreds(r) ==
    /\ pc[r] = "mutate"
    /\ args[r].command = "rotate-creds"
    /\ \E o \in Outcomes :
          LET q == Request(args[r].FASTLY_KEY, "PUT", "logging", mutationTarget(r),
                           args[r].loggingName)
              e == Result(q, o).err
          IN /\ Send(r, q, o)
             /\ mutation' = [mutation EXCEPT ![r] = e]
             /\ err' = [err EXCEPT ![r] = e]
             /\ pc' = [pc EXCEPT ![r] = updateServiceNext("mutate", e)]
    /\ UNCHANGED <<args, activeVersion, newVersion, confs, deleteIdx, exitCode, stdout>>

\* createLogs' closure: createLogConfiguration, which names the endpoint "s3-logs"
CreateLogConfiguration(r) ==
    /\ pc[r] = "mutate"
    /\ args[r].command = "create"
    /\ \E o \in Outcomes :
          LET q == Request(args[r].FASTLY_KEY, "POST", "logging", mutationTarget(r),
                           "s3-logs")
              e == Result(q, o).err
          IN /\ Send(r, q, o)
             /\ mutation' = [mutation EXCEPT ![r] = e]
             /\ err' = [err EXCEPT ![r] = e]
             /\ pc' = [pc EXCEPT ![r] = updateServiceNext("mutate", e)]
    /\ UNCHANGED <<args, activeVersion, newVersion, confs, deleteIdx, exitCode, stdout>>

\* describeLogs' closure: getLogConfiguration, then json.Indent (its error is
\* dropped: a malformed body prints an empty buffer) and Println
DescribeLogs(r) ==
    /\ pc[r] = "mutate"
    /\ args[r].command = "describe"
    /\ \E o \in Outcomes :
          LET q == Request(args[r].FASTLY_KEY, "GET", "logging", mutationTarget(r), "")
              res == Result(q, o)
          IN /\ Send(r, q, o)
             /\ stdout' = [stdout EXCEPT ![r] =
                              IF res.err # Nil THEN @
                              ELSE IF res.body.wellFormed THEN "config" ELSE "empty"]
             /\ mutation' = [mutation EXCEPT ![r] = res.err]
             /\ err' = [err EXCEPT ![r] = res.err]
             /\ pc' = [pc EXCEPT ![r] = updateServiceNext("mutate", res.err)]
    /\ UNCHANGED <<args, activeVersion, newVersion, confs, deleteIdx, exitCode>>

\* deleteLogs' closure, deleteLogConfiguration up to its loop: getLogConfiguration
\* and json.Unmarshal; an empty list ends the function at once
DeleteList(r) ==
    /\ pc[r] = "mutate"
    /\ args[r].command = "delete"
    /\ \E o \in Outcomes :
          LET q == Request(args[r].FASTLY_KEY, "GET", "logging", mutationTarget(r), "")
              res == Result(q, o)
              e == IF res.err # Nil THEN res.err
                   ELSE IF ~res.body.wellFormed THEN ErrDecode ELSE Nil
              cs == IF e = Nil THEN confNames(res.body) ELSE <<>>
          IN /\ Send(r, q, o)
             /\ confs' = [confs EXCEPT ![r] = cs]
             /\ deleteIdx' = [deleteIdx EXCEPT ![r] = IF cs = <<>> THEN @ ELSE 1]
             /\ mutation' = [mutation EXCEPT ![r] =
                                IF e = Nil /\ cs # <<>> THEN @ ELSE e]
             /\ err' = [err EXCEPT ![r] = e]
             /\ pc' = [pc EXCEPT ![r] = IF e = Nil /\ cs # <<>> THEN "deleting"
                                        ELSE updateServiceNext("mutate", e)]
    /\ UNCHANGED <<args, activeVersion, newVersion, exitCode, stdout>>

\* one iteration of deleteLogConfiguration's loop
DeleteEach(r) ==
    /\ pc[r] = "deleting"
    /\ \E o \in Outcomes :
          LET q == Request(args[r].FASTLY_KEY, "DELETE", "logging", mutationTarget(r),
                           confs[r][deleteIdx[r]])
              loop == deleteLoop(confs[r], deleteIdx[r], Result(q, o).err)
          IN /\ Send(r, q, o)
             /\ deleteIdx' = [deleteIdx EXCEPT ![r] = IF loop.done THEN @ ELSE @ + 1]
             /\ mutation' = [mutation EXCEPT ![r] = IF loop.done THEN loop.err ELSE @]
             /\ err' = [err EXCEPT ![r] = loop.err]
             /\ pc' = [pc EXCEPT ![r] = IF loop.done
                                        THEN updateServiceNext("mutate", loop.err)
                                        ELSE "deleting"]
    /\ UNCHANGED <<args, activeVersion, newVersion, confs, exitCode, stdout>>

\* updateService, last step: activateService
ActivateService(r) ==
    /\ pc[r] = "activate"
    /\ \E o \in Outcomes :
          LET q == Request(args[r].FASTLY_KEY, "PUT", "activate", activateTarget(r), "")
              e == Result(q, o).err
          IN /\ Send(r, q, o)
             /\ err' = [err EXCEPT ![r] = e]
             /\ pc' = [pc EXCEPT ![r] = updateServiceNext("activate", e)]
    /\ UNCHANGED <<args, activeVersion, newVersion, confs, deleteIdx, mutation,
                   exitCode, stdout>>

\* check(err) in the command's function, and the end of main
Exit(r) ==
    /\ pc[r] = "returned"
    /\ exitCode' = [exitCode EXCEPT ![r] = check(err[r])]
    /\ pc' = [pc EXCEPT ![r] = "exited"]
    /\ UNCHANGED <<service, service0, args, activeVersion, newVersion, confs,
                   deleteIdx, mutation, err, stdout, reqs>>

Next ==
    \/ Main(1)
    \/ GetActiveService(1)
    \/ CloneService(1)
    \/ UpdateLoggingCreds(1)
    \/ CreateLogConfiguration(1)
    \/ DescribeLogs(1)
    \/ DeleteList(1)
    \/ DeleteEach(1)
    \/ ActivateService(1)
    \/ Exit(1)

Spec == Init /\ [][Next]_vars

(***************************************************************************)
(* Two invocations of the program against the same service, their HTTP     *)
(* round trips interleaved in any order.  Both have passed main's argument *)
(* checks, each with any of the four commands; the service has one         *)
(* version, active, with two logging endpoints.                            *)
(***************************************************************************)
ConcService ==
    <<[number |-> FirstNumber, active |-> TRUE,
       logging |-> <<[name |-> "s3-logs", access_key |-> OldKey],
                     [name |-> "extra", access_key |-> OldKey]>>]>>

ConcArgs ==
    {[command |-> c, serviceID |-> "svc", awsAccessKey |-> NewKey,
      loggingName |-> "s3-logs", AWS_SECRET_KEY |-> "secret", FASTLY_KEY |-> "key"] :
        c \in Commands}

InitConc ==
    /\ service = ConcService
    /\ service0 = service
    /\ pc = [r \in Runs |-> "getActive"]
    /\ args \in [Runs -> ConcArgs]
    /\ activeVersion = [r \in Runs |-> 0]
    /\ newVersion = [r \in Runs |-> 0]
    /\ confs = [r \in Runs |-> <<>>]
    /\ deleteIdx = [r \in Runs |-> 0]
    /\ mutation = [r \in Runs |-> "pending"]
    /\ err = [r \in Runs |-> Nil]
    /\ exitCode = [r \in Runs |-> -1]
    /\ stdout = [r \in Runs |-> ""]
    /\ reqs = [r \in Runs |-> <<>>]

NextConc ==
    \E r \in Runs :
        \/ GetActiveService(r)
        \/ CloneService(r)
        \/ UpdateLoggingCreds(r)
        \/ CreateLogConfiguration(r)
        \/ DescribeLogs(r)
        \/ DeleteList(r)
        \/ DeleteEach(r)
        \/ ActivateService(r)
        \/ Exit(r)

SpecConc == InitConc /\ [][NextConc]_vars

(***************************************************************************)
(* What the claims speak of.                                               *)
(***************************************************************************)
\* the indices of run r's requests on resource path
Issued(r, path) == {i \in DOMAIN reqs[r] : reqs[r][i].path = path}

\* updateService has returned in run r
Returned(r) == pc[r] \in {"returned", "exited"}

\* fn has returned in run r, and returned e
MutationReturned(r) == mutation[r] # "pending"

MutationFailed(r) == MutationReturned(r) /\ mutation[r] # Nil

(***************************************************************************)
(* C1: when updateService has returned, the activate request was issued    *)
(* if and only if the mutation closure returned success and the command    *)
(* is not describe.  The code activates after a successful describe too.   *)
(***************************************************************************)
C1_ActivateIffMutatedAndNotDescribe ==
    Returned(1) /\ args[1].command \in Commands =>
        (Issued(1, "activate") # {}
            <=> (mutation[1] = Nil /\ args[1].command # "describe"))

(***************************************************************************)
(* C2: in every run whose mutation step returned an error, no activate     *)
(* request is issued.                                                      *)
(***************************************************************************)
C2_NoActivateAfterMutationError ==
    MutationFailed(1) => Issued(1, "activate") = {}

\* a delete run ended after its mutation failed on a decode error of the list
C2_Witness ==
    /\ pc[1] = "exited"
    /\ args[1].command = "delete"
    /\ mutation[1] = ErrDecode
    /\ Issued(1, "logging") # {}

(***************************************************************************)
(* C3: every request on the logging sub-resource comes after a clone       *)
(* request that succeeded, targets the version number that clone returned  *)
(* and never a version that was active when the run started.               *)
(***************************************************************************)
C3_LoggingTargetsClone ==
    \A i \in Issued(1, "logging") :
        /\ \E j \in Issued(1, "clone") :
              /\ j < i
              /\ reqs[1][j].err = Nil
              /\ reqs[1][j].wellFormed
              /\ reqs[1][i].version = reqs[1][j].number
        /\ reqs[1][i].version \notin ActiveNumbers(service0)

\* a credential update answered 200 on version 6, the clone of active version 5
C3_Witness ==
    /\ ActiveNumbers(service0) = {5}
    /\ \E i \in Issued(1, "logging") :
          /\ reqs[1][i].method = "PUT"
          /\ reqs[1][i].version = 6
          /\ reqs[1][i].status = StatusOK

(***************************************************************************)
(* C4: as long as the remote has not answered an activate request of the   *)
(* run with 200, the versions marked active and their logging endpoints    *)
(* are what they were when the run started.                                *)
(***************************************************************************)
ActivationServed(r) == \E i \in Issued(r, "activate") : reqs[r][i].status = StatusOK

C4_ActiveUntouchedBeforeActivation ==
    ~ActivationServed(1) =>
        /\ ActiveNumbers(service) = ActiveNumbers(service0)
        /\ \A v \in ActiveNumbers(service0) :
              LoggingOf(service, v) = LoggingOf(service0, v)

\* a run that changed its draft and then aborted at the activate step
C4_Witness ==
    /\ pc[1] = "exited"
    /\ err[1] = ErrAPI
    /\ mutation[1] = Nil
    /\ Issued(1, "activate") # {}
    /\ ActiveNumbers(service0) # {}
    /\ \E i \in DOMAIN service :
          /\ service[i].number = newVersion[1]
          /\ service[i].logging # service0[1].logging

(***************************************************************************)
(* C5: a clone request answered with a status other than 200 is the last   *)
(* request of the run, and updateService returns an error.                 *)
(***************************************************************************)
C5_CloneRejectedEndsRun ==
    \A i \in Issued(1, "clone") :
        reqs[1][i].status \in Statuses \ {StatusOK} =>
            /\ i = Len(reqs[1])
            /\ Returned(1)
            /\ err[1] # Nil
            /\ Issued(1, "logging") = {}
            /\ Issued(1, "activate") = {}

\* a run ended with exit status 1 after its clone was answered 404
C5_Witness ==
    /\ pc[1] = "exited"
    /\ exitCode[1] = 1
    /\ \E i \in Issued(1, "clone") : reqs[1][i].status = 404

(***************************************************************************)
(* C6: when the version list comes back with no entry marked active, the   *)
(* run fails with the no-active-version error and the version-list GET is  *)
(* its only request.                                                       *)
(***************************************************************************)
ListedNoActive(r) ==
    /\ Issued(r, "version") # {}
    /\ reqs[r][1].err = Nil
    /\ reqs[r][1].wellFormed
    /\ (~reqs[r][1].complete \/ ActiveNumbers(service0) = {})

C6_NoActiveVersionEndsRun ==
    ListedNoActive(1) =>
        /\ Len(reqs[1]) = 1
        /\ Returned(1)
        /\ err[1] = ErrNoActive
        /\ pc[1] = "exited" => exitCode[1] = 1

\* a run on a service with an empty version list has ended
C6_Witness ==
    /\ service0 = <<>>
    /\ ListedNoActive(1)
    /\ reqs[1][1].complete
    /\ pc[1] = "exited"

(***************************************************************************)
(* C7: deleteLogConfiguration deletes the listed endpoints one by one in   *)
(* list order on the draft; it issues exactly one delete per entry when    *)
(* all succeed; a failed delete is its last one, its error names that      *)
(* endpoint, and the endpoints deleted before it stay deleted.             *)
(***************************************************************************)
IsDelete(q) == q.method = "DELETE"

Deletes(r) == SelectSeq(reqs[r], IsDelete)

\* the names of the endpoints of version v, in list order
NamesOf(svc, v) == [i \in DOMAIN LoggingOf(svc, v) |-> LoggingOf(svc, v)[i].name]

C7_DeleteEachInOrder ==
    LET dels == Deletes(1)
        N == Len(confs[1])
    IN /\ Len(dels) <= N
       /\ \A j \in DOMAIN dels :
             /\ dels[j].name = confs[1][j]
             /\ dels[j].version = newVersion[1]
             /\ dels[j].err # Nil =>
                   /\ j = Len(dels)
                   /\ mutation[1] = ErrDelete(confs[1][j])
                   /\ Returned(1)
             /\ dels[j].err = Nil =>
                   dels[j].name \notin LoggingNames(service, newVersion[1])
       /\ args[1].command = "delete" /\ mutation[1] = Nil =>
             /\ Len(dels) = N
             /\ \A j \in DOMAIN dels : dels[j].err = Nil
       /\ \A i \in Issued(1, "logging") :
             reqs[1][i].method = "GET" /\ args[1].command = "delete"
                /\ reqs[1][i].err = Nil /\ reqs[1][i].wellFormed /\ reqs[1][i].complete
             => confs[1] = NamesOf(service0, activeVersion[1])

\* three endpoints listed, the first deleted, the second delete refused, no third
\* delete issued: the draft is left with the second and third endpoint
C7_Witness ==
    /\ pc[1] = "exited"
    /\ Len(confs[1]) = 3
    /\ Len(Deletes(1)) = 2
    /\ Deletes(1)[1].err = Nil
    /\ Deletes(1)[2].err = ErrAPI
    /\ err[1] = ErrDelete(confs[1][2])
    /\ LoggingNames(service, newVersion[1]) = {confs[1][2], confs[1][3]}

(***************************************************************************)
(* C8: a rotate-creds run whose credential update succeeded issues exactly *)
(* list versions, clone v, PUT credentials on w/n, activate w, where v is  *)
(* the version listed active, w the number the clone returned and n the    *)
(* logging name; no activate request of the run targets another version.   *)
(***************************************************************************)
C8_RotateActivatesCloneOnce ==
    args[1].command = "rotate-creds" =>
        /\ \A i \in Issued(1, "activate") :
              i = 4 /\ reqs[1][i].version = reqs[1][2].number
        /\ mutation[1] = Nil /\ Returned(1) =>
              /\ Len(reqs[1]) = 4
              /\ reqs[1][1].method = "GET" /\ reqs[1][1].path = "version"
              /\ reqs[1][2].method = "PUT" /\ reqs[1][2].path = "clone"
              /\ reqs[1][2].version \in ActiveNumbers(service0)
              /\ reqs[1][3].method = "PUT" /\ reqs[1][3].path = "logging"
              /\ reqs[1][3].version = reqs[1][2].number
              /\ reqs[1][3].name = args[1].loggingName
              /\ reqs[1][4].method = "PUT" /\ reqs[1][4].path = "activate"
              /\ reqs[1][4].version = reqs[1][2].number

\* the spec's scenario: active version 5, clone 6, endpoint "s3-logs", all answered 200
C8_Witness ==
    /\ pc[1] = "exited"
    /\ exitCode[1] = 0
    /\ args[1].command = "rotate-creds"
    /\ args[1].loggingName = "s3-logs"
    /\ ActiveNumbers(service0) = {5}
    /\ reqs[1][2].version = 5
    /\ reqs[1][3].version = 6
    /\ reqs[1][4].version = 6
    /\ ActiveNumbers(service) = {6}

(***************************************************************************)
(* C9: right after getActiveService has decoded the version list: with     *)
(* exactly one entry marked active it has returned that entry's number and *)
(* no error, wherever the entry stands in the list; with none it has       *)
(* returned the no-active-version error.                                   *)
(***************************************************************************)
C9_GetActiveService ==
    /\ Len(reqs[1]) = 1
    /\ reqs[1][1].err = Nil
    /\ reqs[1][1].wellFormed
    /\ reqs[1][1].complete
    => /\ Cardinality(ActiveNumbers(service0)) = 1 =>
             /\ err[1] = Nil
             /\ activeVersion[1] \in ActiveNumbers(service0)
             /\ pc[1] = "clone"
       /\ ActiveNumbers(service0) = {} =>
             /\ err[1] = ErrNoActive
             /\ Returned(1)

\* the only active entry is the last of the list, not the first
C9_Witness ==
    /\ Len(service0) = MaxVersions
    /\ ActiveNumbers(service0) = {service0[MaxVersions].number}
    /\ Len(reqs[1]) = 1
    /\ reqs[1][1].err = Nil
    /\ activeVersion[1] = service0[MaxVersions].number

(***************************************************************************)
(* C10: a describe run leaves the service's set of versions and its active *)
(* version as they were and issues no clone and no activate request.  The  *)
(* code runs describe through updateService, which clones and activates.   *)
(***************************************************************************)
C10_DescribeChangesNothing ==
    args[1].command = "describe" =>
        /\ Numbers(service) = Numbers(service0)
        /\ ActiveNumbers(service) = ActiveNumbers(service0)
        /\ Issued(1, "clone") = {}
        /\ Issued(1, "activate") = {}

(***************************************************************************)
(* C11: when a required input is missing (the -serviceID flag, the         *)
(* -awsAccessKey flag, AWS_SECRET_KEY or FASTLY_KEY is empty) the process  *)
(* ends with a non-zero exit status without having issued any HTTP         *)
(* request.  checkArgs visits the flags only: with an empty environment    *)
(* variable the run goes on to its requests.                               *)
(***************************************************************************)
MissingInput(a) ==
    \/ a.serviceID = ""
    \/ a.awsAccessKey = ""
    \/ a.AWS_SECRET_KEY = ""
    \/ a.FASTLY_KEY = ""

C11_MissingInputEndsBeforeRequests ==
    pc[1] # "main" /\ MissingInput(args[1]) =>
        /\ reqs[1] = <<>>
        /\ exitCode[1] # 0

(***************************************************************************)
(* C12: fastlyHTTP returns an error and no body for every response whose   *)
(* status is not 200 and the body without error for status 200 only; so    *)
(* a request answered with another status is the last of its run, and the  *)
(* run returns an error.  The first half does not depend on the state: it  *)
(* is evaluated on the states in which no request has been issued yet.     *)
(***************************************************************************)
C12_Non200IsAnError ==
    /\ reqs[1] = <<>> => \A o \in Outcomes :
          LET res == fastlyHTTP(o, <<"body">>)
          IN /\ o.do /\ o.status # StatusOK => res.err # Nil /\ res.body = NoBody
             /\ res.err = Nil =>
                   /\ o.status = StatusOK
                   /\ res.body.value = <<"body">>
             /\ o.do /\ o.read /\ o.status = StatusOK => res.err = Nil
    /\ \A i \in DOMAIN reqs[1] :
          /\ reqs[1][i].status \in Statuses \ {StatusOK} =>
                /\ reqs[1][i].err # Nil
                /\ i = Len(reqs[1])
                /\ Returned(1)
                /\ err[1] # Nil
                /\ pc[1] = "exited" => exitCode[1] = 1
          /\ reqs[1][i].err = Nil => reqs[1][i].status = StatusOK

\* every step of the workflow is answered 201 in some run, which then ends in error
C12_Witness ==
    /\ pc[1] = "exited"
    /\ exitCode[1] = 1
    /\ reqs[1] # <<>>
    /\ reqs[1][Len(reqs[1])].status = 201
    /\ reqs[1][Len(reqs[1])].path = "activate"

(***************************************************************************)
(* C13, as stated: every clone request names a version the service marks   *)
(* active at the moment the request is issued, and no later logging or     *)
(* activate request of the run names the version that was cloned.  With    *)
(* two runs the first half fails: the other run can activate its clone     *)
(* between this run's list read and its clone request.                     *)
(***************************************************************************)
ClonedApart(r) ==
    \A i \in Issued(r, "clone") :
        \A j \in Issued(r, "logging") \cup Issued(r, "activate") :
            reqs[r][j].version # reqs[r][i].version

C13_CloneTargetsCurrentActive ==
    \A r \in Runs :
        /\ \A i \in Issued(r, "clone") : reqs[r][i].version \in reqs[r][i].active
        /\ ClonedApart(r)

(***************************************************************************)
(* C13, amended: every clone request names a version the service marked    *)
(* active at the moment of the run's own version-list read, and no later   *)
(* logging or activate request of the run names the version that was       *)
(* cloned, also when the clone response carries no number field.           *)
(***************************************************************************)
C13_CloneTargetsListedActive ==
    \A r \in Runs :
        /\ \A i \in Issued(r, "clone") :
              /\ i = 2
              /\ reqs[r][1].path = "version"
              /\ reqs[r][i].version \in reqs[r][1].active
        /\ ClonedApart(r)

\* run 1 cloned a version that was no longer active when it asked, the clone was
\* answered 200, and run 1 went on to activate its clone and exit 0
C13_Witness ==
    /\ pc[1] = "exited"
    /\ exitCode[1] = 0
    /\ \E i \in Issued(1, "clone") :
          /\ reqs[1][i].version \notin reqs[1][i].active
          /\ reqs[1][i].status = StatusOK

(***************************************************************************)
(* C14: every error ends the run in the error outcome: a request that      *)
(* failed (transport, unreadable body, status other than 200) or whose     *)
(* body, where the step decodes it (list, clone, delete-list, describe),   *)
(* is malformed, is the last request of the run, and the run exits with    *)
(* status 1.  describeLogs drops json.Indent's error: after a malformed    *)
(* body it goes on to activate and exits 0.                                *)
(***************************************************************************)
Decoded(q) == q.path \in {"version", "clone"} \/ (q.path = "logging" /\ q.method = "GET")

MetError(q) == q.err # Nil \/ (Decoded(q) /\ ~q.wellFormed)

C14_ErrorsAreTerminal ==
    \A i \in DOMAIN reqs[1] :
        MetError(reqs[1][i]) =>
            /\ i = Len(reqs[1])
            /\ Returned(1)
            /\ err[1] # Nil
            /\ pc[1] = "exited" => exitCode[1] = 1

(***************************************************************************)
(* C15: a run never repeats a request and always moves on: at most one     *)
(* version-list request, one clone, one activate, and at most N + 1        *)
(* logging requests for a delete over N listed endpoints (one for the      *)
(* other commands); the requests come in the order list, clone, mutation,  *)
(* activate, an activate request is the last one, a run that has not       *)
(* exited can take a step, and every step issues a request or moves        *)
(* the run forward, so that the run ends after at most N + 6 steps.        *)
(***************************************************************************)
Rank(path) ==
    CASE path = "version" -> 1
      [] path = "clone" -> 2
      [] path = "logging" -> 3
      [] path = "activate" -> 4

PcRank(p) ==
    CASE p = "main" -> 0
      [] p = "getActive" -> 1
      [] p = "clone" -> 2
      [] p = "mutate" -> 3
      [] p = "deleting" -> 4
      [] p = "activate" -> 5
      [] p = "returned" -> 6
      [] p = "exited" -> 7
      [] p = "off" -> 7

C15_Requests ==
    /\ Cardinality(Issued(1, "version")) <= 1
    /\ Cardinality(Issued(1, "clone")) <= 1
    /\ Cardinality(Issued(1, "activate")) <= 1
    /\ Cardinality(Issued(1, "logging")) <=
          IF args[1].command = "delete" THEN Len(confs[1]) + 1 ELSE 1
    /\ \A i, j \in DOMAIN reqs[1] :
          i < j =>
            /\ Rank(reqs[1][i].path) <= Rank(reqs[1][j].path)
            /\ <<reqs[1][i].method, reqs[1][i].path, reqs[1][i].version, reqs[1][i].name>>
                 # <<reqs[1][j].method, reqs[1][j].path, reqs[1][j].version, reqs[1][j].name>>
    /\ \A i \in Issued(1, "activate") : i = Len(reqs[1])
    /\ pc[1] # "exited" => ENABLED Next

C15_Progress ==
    \/ PcRank(pc'[1]) > PcRank(pc[1])
    \/ /\ pc'[1] = "deleting" /\ pc[1] = "deleting"
       /\ Len(reqs'[1]) = Len(reqs[1]) + 1
       /\ deleteIdx'[1] = deleteIdx[1] + 1
       /\ deleteIdx'[1] <= Len(confs[1])

C15_NoRepeatAndTermination == [](C15_Requests) /\ [][C15_Progress]_vars

\* a delete over three endpoints ran to its end: list, clone, GET, three DELETEs,
\* activate
C15_Witness ==
    /\ pc[1] = "exited"
    /\ exitCode[1] = 0
    /\ args[1].command = "delete"
    /\ Len(confs[1]) = 3
    /\ Len(reqs[1]) = 7

(***************************************************************************)
(* C17: when the version list has more than one entry marked active,       *)
(* getActiveService returns the number of the first of them in list order  *)
(* and no error, and the clone request of the run names that version.      *)
(***************************************************************************)
FirstActive(svc) ==
    svc[CHOOSE i \in DOMAIN svc :
            svc[i].active /\ \A j \in DOMAIN svc : svc[j].active => i <= j].number

C17_FirstActiveIsCloned ==
    /\ reqs[1] # <<>>
    /\ reqs[1][1].err = Nil
    /\ reqs[1][1].wellFormed
    /\ reqs[1][1].complete
    /\ Cardinality(ActiveNumbers(service0)) > 1
    => /\ activeVersion[1] = FirstActive(service0)
       /\ Len(reqs[1]) = 1 => err[1] = Nil /\ pc[1] = "clone"
       /\ \A i \in Issued(1, "clone") : reqs[1][i].version = FirstActive(service0)

\* versions 4 and 5 both marked active: the run has cloned 4
C17_Witness ==
    /\ Len(service0) = 2
    /\ ActiveNumbers(service0) = {4, 5}
    /\ \E i \in Issued(1, "clone") :
          reqs[1][i].version = 4 /\ reqs[1][i].status = StatusOK

(***************************************************************************)
(* C16: with two runs interleaved in any order, every activate request     *)
(* names the run's own clone, is issued only after the run's mutation      *)
(* returned success with every logging request of the run answered         *)
(* without error, for a delete after every listed endpoint was deleted     *)
(* from that clone, and never names the other run's draft; the versions    *)
(* marked active are those of the start or such completed clones.          *)
(***************************************************************************)
Completed(r) ==
    /\ mutation[r] = Nil
    /\ \A k \in Issued(r, "logging") :
          reqs[r][k].err = Nil /\ reqs[r][k].version = newVersion[r]
    /\ args[r].command = "delete" =>
          /\ Len(Deletes(r)) = Len(confs[r])
          /\ Exists(service, newVersion[r]) =>
                \A k \in DOMAIN confs[r] :
                    confs[r][k] \notin LoggingNames(service, newVersion[r])

C16_OnlyCompletedClonesActivated ==
    /\ \A r \in Runs :
          \A i \in Issued(r, "activate") :
              /\ reqs[r][i].version = newVersion[r]
              /\ \E j \in Issued(r, "clone") :
                    reqs[r][j].err = Nil /\ reqs[r][j].number = reqs[r][i].version
              /\ Completed(r)
              /\ \A r2 \in Runs \ {r} : reqs[r][i].version # newVersion[r2]
    /\ \A v \in ActiveNumbers(service) \ ActiveNumbers(service0) :
          \E r \in Runs : v = newVersion[r] /\ Completed(r) /\ ActivationServed(r)

\* run 1's delete failed at its second endpoint and left a draft with one of two
\* endpoints deleted; run 2 has activated its own clone; the draft is not active
C16_Witness ==
    /\ pc[1] = "exited"
    /\ args[1].command = "delete"
    /\ Len(Deletes(1)) = 2
    /\ Deletes(1)[1].err = Nil
    /\ Deletes(1)[2].err # Nil
    /\ LoggingNames(service, newVersion[1]) = {"extra"}
    /\ ActivationServed(2)
    /\ ActiveNumbers(service) = {newVersion[2]}

====
